---- MODULE Spec2Model ----
(***************************************************************************)
(* Model of the renderer/controller process of Project1: main.cpp's tick   *)
(* loop and the GameRenderer methods it calls (game_renderer.cpp).         *)
(*                                                                         *)
(* JSON values (nlohmann::json) are tagged records:                        *)
(*   [t |-> "null"], [t |-> "bool", b |-> ..], [t |-> "num", n |-> ..],     *)
(*   [t |-> "str", s |-> ..], [t |-> "arr", a |-> <<..>>],                  *)
(*   [t |-> "obj", o |-> [key |-> value, ...]].                             *)
(* Numbers in the modelled documents are integers; screen coordinates that *)
(* the code computes with a factor 0.5 are kept doubled (suffix 2), radii  *)
(* in hundredths of a pixel (suffix 100), so all arithmetic is exact.      *)
(***************************************************************************)
EXTENDS Integers, Sequences, FiniteSets, TLC

VARIABLES
    pc,               \* the call main() makes next, or "terminated" / "aborted"
    current_state_,   \* GameRenderer::current_state_
    tile_size_,       \* GameRenderer::tile_size_
    room_width_,      \* GameRenderer::room_width_
    room_height_,     \* GameRenderer::room_height_
    quit_requested_,  \* GameRenderer::quit_requested_
    window_open,      \* the drawing surface: InitWindow .. CloseWindow
    game_state_json,  \* shared/game_state.json as the last poll found it
    input_json,       \* shared/input.json: the document last written to it
    last_write,       \* the last WriteInput call: caller and frame passed
    writes_after_close, \* WriteInput calls made by calls after the one that saw the close signal
    draw_list,        \* draw commands issued by this tick's RenderFrame
    tick_steps,       \* the steps this tick has started, in order
    log               \* TraceLog warnings of the last call

vars == <<pc, current_state_, tile_size_, room_width_, room_height_,
          quit_requested_, window_open, game_state_json, input_json,
          last_write, writes_after_close, draw_list, tick_steps, log>>

---------------------------------------------------------------------------
(* nlohmann::json values and the accessors the renderer uses *)

Null == [t |-> "null"]
Bool(b) == [t |-> "bool", b |-> b]
Num(n) == [t |-> "num", n |-> n]
Str(s) == [t |-> "str", s |-> s]
Arr(a) == [t |-> "arr", a |-> a]
Obj(o) == [t |-> "obj", o |-> o]
EmptyObject == Obj(<<>>)

\* json::contains(key): false on anything that is not an object
Contains(j, key) == j.t = "obj" /\ key \in DOMAIN j.o

\* json::operator[](key) on an object that holds the key
At(j, key) == j.o[key]

\* json::size(): 0 for null, the element count of arrays and objects, else 1
RECURSIVE SetSize(_)
SetSize(S) == IF S = {} THEN 0 ELSE 1 + SetSize(S \ {CHOOSE x \in S : TRUE})
Size(j) ==
    CASE j.t = "null" -> 0
      [] j.t = "arr" -> Len(j.a)
      [] j.t = "obj" -> SetSize(DOMAIN j.o)
      [] OTHER -> 1

\* the values of an object in iteration order (key order in the library; the
\* documents of this model hold at most one member wherever an object is iterated)
RECURSIVE ObjValues(_, _)
ObjValues(o, keys) ==
    IF keys = {} THEN <<>>
    ELSE LET k == CHOOSE x \in keys : TRUE
         IN <<o[k]>> \o ObjValues(o, keys \ {k})

\* begin()..end(): nothing for null, the elements of an array, the values of
\* an object, and a primitive itself once
Elems(j) ==
    CASE j.t = "null" -> <<>>
      [] j.t = "arr" -> j.a
      [] j.t = "obj" -> ObjValues(j.o, DOMAIN j.o)
      [] OTHER -> <<j>>

\* get<int>() / get<float>(): numbers and booleans convert, anything else
\* throws type_error 302
GetNumber(j) ==
    CASE j.t = "num" -> [threw |-> FALSE, v |-> j.n]
      [] j.t = "bool" -> [threw |-> FALSE, v |-> IF j.b THEN 1 ELSE 0]
      [] OTHER -> [threw |-> TRUE, v |-> 0]

\* get<std::string>(): throws type_error 302 unless the value is a string
GetString(j) ==
    IF j.t = "str" THEN [threw |-> FALSE, v |-> j.s]
    ELSE [threw |-> TRUE, v |-> ""]

\* get<bool>(): throws type_error 302 unless the value is a boolean
GetBool(j) ==
    IF j.t = "bool" THEN [threw |-> FALSE, v |-> j.b]
    ELSE [threw |-> TRUE, v |-> FALSE]

\* json::value(key, default): type_error 306 on a non-object, the default when
\* the key is missing, else the member converted to the default's type
ValueNumber(j, key, def) ==
    IF j.t # "obj" THEN [threw |-> TRUE, v |-> def]
    ELSE IF key \in DOMAIN j.o THEN GetNumber(j.o[key])
    ELSE [threw |-> FALSE, v |-> def]

ValueString(j, key, def) ==
    IF j.t # "obj" THEN [threw |-> TRUE, v |-> def]
    ELSE IF key \in DOMAIN j.o THEN GetString(j.o[key])
    ELSE [threw |-> FALSE, v |-> def]

ValueBool(j, key, def) ==
    IF j.t # "obj" THEN [threw |-> TRUE, v |-> def]
    ELSE IF key \in DOMAIN j.o THEN GetBool(j.o[key])
    ELSE [threw |-> FALSE, v |-> def]

---------------------------------------------------------------------------
(* shared/game_state.json and its parse (file >> state) *)

\* A file on disk: absent, or a text.  A text is the members of its top-level
\* object in the order they are written (or a top-level array), and how much
\* of it the external writer has put on disk: "none" (empty file), "partial"
\* (half-written) or "full".
AbsentFile == [present |-> FALSE, written |-> "none", top |-> "object", members |-> <<>>]
TextFile(written, top, members) ==
    [present |-> TRUE, written |-> written, top |-> top, members |-> members]

\* the object a member list denotes: a later duplicate key replaces an earlier
\* one, and the order of the members is not kept
RECURSIVE BuildObject(_)
BuildObject(members) ==
    IF members = <<>> THEN <<>>
    ELSE LET n == Len(members)
             rest == BuildObject(SubSeq(members, 1, n - 1))
             k == members[n][1]
         IN [x \in (DOMAIN rest) \cup {k} |->
                IF x = k THEN members[n][2] ELSE rest[x]]

\* file >> state: parse_error on an empty or half-written text
ParseJson(file) ==
    IF file.written # "full" THEN [ok |-> FALSE, value |-> Null]
    ELSE IF file.top = "array" THEN [ok |-> TRUE, value |-> Arr(<<>>)]
    ELSE [ok |-> TRUE, value |-> Obj(BuildObject(file.members))]

ParseWarning == "Failed to parse game_state.json"
WriteWarning == "Unable to write input.json"
DirectoryWarning == "Failed to ensure shared directory"

screen_width == 1280
screen_height == 720
DefaultTileSize == 32

\* UpdateFromPython mutated: the snapshot is cleared before the parse, so a
\* parse failure leaves an empty snapshot behind
PollClearsFirst(file, cur, ts, rw, rh) ==
    IF ~file.present
    THEN [state |-> cur, ts |-> ts, rw |-> rw, rh |-> rh, log |-> <<>>]
    ELSE LET p == ParseJson(file) IN
         IF ~p.ok
         THEN [state |-> EmptyObject, ts |-> ts, rw |-> rw, rh |-> rh, log |-> <<ParseWarning>>]
         ELSE [state |-> p.value, ts |-> ts, rw |-> rw, rh |-> rh, log |-> <<>>]

\* UpdateFromPython: what one poll that finds `file` makes of the snapshot
\* and of the cached tile size and room dimensions, and what it logs.  The
\* snapshot is assigned before the tilemap fields are read, and each cached
\* value is assigned as soon as its field is read, so an exception thrown by
\* a later field is caught with the earlier assignments already made.
Poll(file, cur, ts, rw, rh) ==
    IF ~file.present
    THEN [state |-> cur, ts |-> ts, rw |-> rw, rh |-> rh, log |-> <<>>]
    ELSE LET p == ParseJson(file) IN
         IF ~p.ok
         THEN [state |-> cur, ts |-> ts, rw |-> rw, rh |-> rh, log |-> <<ParseWarning>>]
         ELSE IF ~Contains(p.value, "tilemap")
         THEN [state |-> p.value, ts |-> ts, rw |-> rw, rh |-> rh, log |-> <<>>]
         ELSE LET tilemap == At(p.value, "tilemap")
                  a == ValueNumber(tilemap, "tile_size", DefaultTileSize)
                  b == ValueNumber(tilemap, "width", 0)
                  c == ValueNumber(tilemap, "height", 0)
              IN IF a.threw
                 THEN [state |-> p.value, ts |-> ts, rw |-> rw, rh |-> rh, log |-> <<ParseWarning>>]
                 ELSE IF b.threw
                 THEN [state |-> p.value, ts |-> a.v, rw |-> rw, rh |-> rh, log |-> <<ParseWarning>>]
                 ELSE IF c.threw
                 THEN [state |-> p.value, ts |-> a.v, rw |-> b.v, rh |-> rh, log |-> <<ParseWarning>>]
                 ELSE [state |-> p.value, ts |-> a.v, rw |-> b.v, rh |-> c.v, log |-> <<>>]

---------------------------------------------------------------------------
(* style tables *)

TileFillColor(tile) ==
    CASE tile = "floor" -> <<60, 52, 65, 255>>
      [] tile = "wall" -> <<90, 92, 112, 255>>
      [] tile = "pit" -> <<20, 20, 32, 255>>
      [] tile = "rock" -> <<120, 120, 140, 255>>
      [] tile = "spikes" -> <<110, 40, 40, 255>>
      [] tile \in {"door_up", "door_down", "door_left", "door_right"} -> <<150, 120, 60, 255>>
      [] tile = "special" -> <<100, 50, 130, 255>>
      [] OTHER -> <<50, 48, 60, 255>>

TileOutlineColor(tile) ==
    CASE tile = "wall" -> <<15, 15, 25, 180>>
      [] tile = "rock" -> <<30, 30, 40, 200>>
      [] tile = "spikes" -> <<200, 40, 60, 255>>
      [] tile \in {"door_up", "door_down", "door_left", "door_right"} -> <<240, 190, 90, 255>>
      [] tile = "special" -> <<200, 120, 255, 255>>
      [] OTHER -> <<0, 0, 0, 0>>

PickupColor(pickup) ==
    CASE pickup = "heart" -> <<220, 60, 80, 255>>
      [] pickup = "coin" -> <<230, 200, 80, 255>>
      [] pickup = "key" -> <<180, 180, 200, 255>>
      [] pickup = "bomb" -> <<90, 90, 90, 255>>
      [] OTHER -> <<220, 220, 220, 255>>

\* WorldToScreen, doubled: 2 * (offset + (coord + 0.5) * tile_size) with
\* offset = (screen - room * tile_size) * 0.5
WorldToScreen(x, y, ts, rw, rh) ==
    [x2 |-> (screen_width - rw * ts) + (2 * x + 1) * ts,
     y2 |-> (screen_height - rh * ts) + (2 * y + 1) * ts]

---------------------------------------------------------------------------
(* the Draw* methods: the commands each issues, and whether it threw *)

Drawn(cmds) == [cmds |-> cmds, threw |-> FALSE]
Thrown(cmds) == [cmds |-> cmds, threw |-> TRUE]
\* r1 and then r2, unless r1 threw
Then(r1, r2) ==
    IF r1.threw THEN r1 ELSE [cmds |-> r1.cmds \o r2.cmds, threw |-> r2.threw]

TileCmds(tile, x, y, ts, rw, rh) ==
    LET rect == [x2 |-> (screen_width - rw * ts) + 2 * x * ts,
                 y2 |-> (screen_height - rh * ts) + 2 * y * ts,
                 w |-> ts, h |-> ts]
        outline == TileOutlineColor(tile)
    IN <<[layer |-> "tilemap", op |-> "DrawRectangleRec", rect |-> rect,
          color |-> TileFillColor(tile)]>>
       \o IF outline[4] > 0
          THEN <<[layer |-> "tilemap", op |-> "DrawRectangleLinesEx", rect |-> rect,
                  color |-> outline]>>
          ELSE <<>>

\* the inner loop of DrawTilemap over row[x], x = from .. row.size() - 1
RECURSIVE DrawRow(_, _, _, _, _, _)
DrawRow(row, x, y, ts, rw, rh) ==
    IF x >= Size(row) THEN Drawn(<<>>)
    ELSE IF row.t # "arr" THEN Thrown(<<>>)
    ELSE LET tile == GetString(row.a[x + 1]) IN
         IF tile.threw THEN Thrown(<<>>)
         ELSE Then(Drawn(TileCmds(tile.v, x, y, ts, rw, rh)),
                   DrawRow(row, x + 1, y, ts, rw, rh))

\* the outer loop of DrawTilemap over tiles[y], y = from .. tiles.size() - 1
RECURSIVE DrawRows(_, _, _, _, _)
DrawRows(tiles, y, ts, rw, rh) ==
    IF y >= Size(tiles) THEN Drawn(<<>>)
    ELSE IF tiles.t # "arr" THEN Thrown(<<>>)
    ELSE Then(DrawRow(tiles.a[y + 1], 0, y, ts, rw, rh),
              DrawRows(tiles, y + 1, ts, rw, rh))

DrawTilemap(s, ts, rw, rh) ==
    IF ~Contains(s, "tilemap") THEN Drawn(<<>>)
    ELSE LET tilemap == At(s, "tilemap") IN
         IF ~Contains(tilemap, "tiles") THEN Drawn(<<>>)
         ELSE DrawRows(At(tilemap, "tiles"), 0, ts, rw, rh)

PickupCmd(pickup, ts, rw, rh) ==
    LET x == ValueNumber(pickup, "x", 0)
        y == ValueNumber(pickup, "y", 0)
        kind == ValueString(pickup, "kind", "coin")
    IN IF x.threw \/ y.threw \/ kind.threw THEN Thrown(<<>>)
       ELSE Drawn(<<[layer |-> "pickups", op |-> "DrawCircleV",
                     pos |-> WorldToScreen(x.v, y.v, ts, rw, rh),
                     radius100 |-> 22 * ts, color |-> PickupColor(kind.v)]>>)

RECURSIVE DrawPickupsFrom(_, _, _, _)
DrawPickupsFrom(items, ts, rw, rh) ==
    IF items = <<>> THEN Drawn(<<>>)
    ELSE Then(PickupCmd(Head(items), ts, rw, rh),
              DrawPickupsFrom(Tail(items), ts, rw, rh))

DrawPickups(s, ts, rw, rh) ==
    IF ~Contains(s, "pickups") THEN Drawn(<<>>)
    ELSE DrawPickupsFrom(Elems(At(s, "pickups")), ts, rw, rh)

Max(a, b) == IF a >= b THEN a ELSE b

\* one iteration of the loop of DrawActors
ActorCmds(actor, ts, rw, rh) ==
    LET type == ValueString(actor, "type", "enemy")
        variant == ValueString(actor, "variant", "default")
        x == ValueNumber(actor, "x", 0)
        y == ValueNumber(actor, "y", 0)
    IN IF type.threw \/ variant.threw \/ x.threw \/ y.threw THEN Thrown(<<>>)
       ELSE LET pos == WorldToScreen(x.v, y.v, ts, rw, rh) IN
            IF type.v = "player"
            THEN LET inv == ValueBool(actor, "invulnerable", FALSE) IN
                 IF inv.threw THEN Thrown(<<>>)
                 ELSE Drawn(<<[layer |-> "actors", op |-> "DrawCircleV", pos |-> pos,
                               radius100 |-> 35 * ts,
                               color |-> IF inv.v THEN <<255, 255, 180, 255>>
                                         ELSE <<120, 200, 255, 255>>],
                              [layer |-> "actors", op |-> "DrawCircleLines", pos |-> pos,
                               radius100 |-> 35 * ts, color |-> <<30, 30, 60, 255>>]>>)
            ELSE LET body == <<[layer |-> "actors", op |-> "DrawCircleV", pos |-> pos,
                                radius100 |-> 32 * ts,
                                color |-> IF variant.v = "spitter" THEN <<220, 90, 90, 255>>
                                          ELSE <<200, 120, 120, 255>>],
                               [layer |-> "actors", op |-> "DrawCircleLines", pos |-> pos,
                                radius100 |-> 32 * ts, color |-> <<60, 20, 20, 255>>]>>
                     hp == ValueNumber(actor, "hp", 0)
                     max_raw == ValueNumber(actor, "max_hp", 1)
                     max_hp == Max(1, max_raw.v)
                     \* background: x = pos.x - 0.3 * ts, y = pos.y - 0.5 * ts,
                     \* width 0.6 * ts, height 4
                     bar == [x20 |-> 10 * pos.x2 - 6 * ts, y2 |-> pos.y2 - ts,
                             w100 |-> 60 * ts, h |-> 4]
                 IN IF hp.threw \/ max_raw.threw THEN Thrown(body)
                    ELSE Drawn(body \o
                           <<[layer |-> "actors", op |-> "DrawRectangleRec", bar |-> bar,
                              num |-> 1, den |-> 1, color |-> <<30, 10, 10, 180>>],
                             [layer |-> "actors", op |-> "DrawRectangleRec", bar |-> bar,
                              num |-> hp.v, den |-> max_hp, color |-> <<220, 40, 40, 200>>]>>)

RECURSIVE DrawActorsFrom(_, _, _, _)
DrawActorsFrom(items, ts, rw, rh) ==
    IF items = <<>> THEN Drawn(<<>>)
    ELSE Then(ActorCmds(Head(items), ts, rw, rh),
              DrawActorsFrom(Tail(items), ts, rw, rh))

DrawActors(s, ts, rw, rh) ==
    IF ~Contains(s, "actors") THEN Drawn(<<>>)
    ELSE DrawActorsFrom(Elems(At(s, "actors")), ts, rw, rh)

ProjectileCmd(projectile, ts, rw, rh) ==
    LET x == ValueNumber(projectile, "x", 0)
        y == ValueNumber(projectile, "y", 0)
        owner == ValueString(projectile, "owner", "player")
    IN IF x.threw \/ y.threw \/ owner.threw THEN Thrown(<<>>)
       ELSE Drawn(<<[layer |-> "projectiles", op |-> "DrawCircleV",
                     pos |-> WorldToScreen(x.v, y.v, ts, rw, rh),
                     radius100 |-> 18 * ts,
                     color |-> IF owner.v = "player" THEN <<150, 220, 255, 255>>
                               ELSE <<255, 150, 150, 255>>]>>)

RECURSIVE DrawProjectilesFrom(_, _, _, _)
DrawProjectilesFrom(items, ts, rw, rh) ==
    IF items = <<>> THEN Drawn(<<>>)
    ELSE Then(ProjectileCmd(Head(items), ts, rw, rh),
              DrawProjectilesFrom(Tail(items), ts, rw, rh))

DrawProjectiles(s, ts, rw, rh) ==
    IF ~Contains(s, "projectiles") THEN Drawn(<<>>)
    ELSE DrawProjectilesFrom(Elems(At(s, "projectiles")), ts, rw, rh)

EffectCmd(effect, ts, rw, rh) ==
    LET x == ValueNumber(effect, "x", 0)
        y == ValueNumber(effect, "y", 0)
        kind == ValueString(effect, "kind", "impact")
    IN IF x.threw \/ y.threw \/ kind.threw THEN Thrown(<<>>)
       ELSE Drawn(<<[layer |-> "effects", op |-> "DrawCircleLines",
                     pos |-> WorldToScreen(x.v, y.v, ts, rw, rh),
                     radius100 |-> 28 * ts,
                     color |-> IF kind.v = "blood_splatter" THEN <<200, 40, 40, 180>>
                               ELSE <<220, 220, 255, 180>>]>>)

RECURSIVE DrawEffectsFrom(_, _, _, _)
DrawEffectsFrom(items, ts, rw, rh) ==
    IF items = <<>> THEN Drawn(<<>>)
    ELSE Then(EffectCmd(Head(items), ts, rw, rh),
              DrawEffectsFrom(Tail(items), ts, rw, rh))

DrawEffects(s, ts, rw, rh) ==
    IF ~Contains(s, "effects") THEN Drawn(<<>>)
    ELSE DrawEffectsFrom(Elems(At(s, "effects")), ts, rw, rh)

---------------------------------------------------------------------------
(* the HUD *)

Reverse(seq) == [i \in 1..Len(seq) |-> seq[Len(seq) + 1 - i]]

\* the loop of DrawMessages over `items` (already in walking order), the
\* previous line having been drawn at y
RECURSIVE DrawMessagesFrom(_, _)
DrawMessagesFrom(items, y) ==
    IF items = <<>> THEN Drawn(<<>>)
    ELSE LET text == GetString(Head(items)) IN
         IF text.threw THEN Thrown(<<>>)
         ELSE Then(Drawn(<<[layer |-> "messages", op |-> "DrawText", text |-> text.v,
                            x |-> 20, y |-> y - 22, size |-> 18,
                            color |-> <<230, 230, 230, 255>>]>>),
                   DrawMessagesFrom(Tail(items), y - 22))

\* DrawMessages mutated: the messages are walked oldest first
DrawMessagesOldestFirst(s) ==
    IF ~Contains(s, "ui") THEN Drawn(<<>>)
    ELSE LET ui == At(s, "ui") IN
         IF ~Contains(ui, "messages") THEN Drawn(<<>>)
         ELSE DrawMessagesFrom(Elems(At(ui, "messages")), screen_height - 20)

DrawMessages(s) ==
    IF ~Contains(s, "ui") THEN Drawn(<<>>)
    ELSE LET ui == At(s, "ui") IN
         IF ~Contains(ui, "messages") THEN Drawn(<<>>)
         ELSE DrawMessagesFrom(Reverse(Elems(At(ui, "messages"))), screen_height - 20)

DrawBossHealth(s) ==
    IF ~Contains(s, "ui") THEN Drawn(<<>>)
    ELSE LET ui == At(s, "ui") IN
         IF ~Contains(ui, "boss_health") \/ At(ui, "boss_health").t = "null"
         THEN Drawn(<<>>)
         ELSE LET boss == At(ui, "boss_health")
                  hp == ValueNumber(boss, "hp", 0)
                  max_raw == ValueNumber(boss, "max_hp", 1)
                  max_hp == Max(1, max_raw.v)
                  name == ValueString(boss, "name", "Boss")
                  \* width = 0.4 * screen width, x = (screen width - width) / 2
                  width == (4 * screen_width) \div 10
                  x == (screen_width - width) \div 2
                  y == screen_height - 60
              IN IF hp.threw \/ max_raw.threw \/ name.threw THEN Thrown(<<>>)
                 ELSE Drawn(<<[layer |-> "boss", op |-> "DrawRectangleRec", x |-> x, y |-> y,
                               w |-> width, h |-> 18, num |-> 1, den |-> 1,
                               color |-> <<40, 10, 10, 200>>],
                              [layer |-> "boss", op |-> "DrawRectangleRec", x |-> x, y |-> y,
                               w |-> width, h |-> 18, num |-> hp.v, den |-> max_hp,
                               color |-> <<200, 40, 40, 255>>],
                              [layer |-> "boss", op |-> "DrawText", text |-> name.v,
                               x |-> x, y |-> y - 22, size |-> 20,
                               color |-> <<240, 240, 240, 255>>]>>)

\* the heart loop of DrawHud for i = from .. max_hp - 1
RECURSIVE HeartCmds(_, _, _)
HeartCmds(i, hp, max_hp) ==
    IF i >= max_hp THEN <<>>
    ELSE <<[layer |-> "hearts", op |-> "DrawRectangleRec", index |-> i,
            x |-> 20 + i * 26, y |-> 20, w |-> 20, h |-> 20,
            color |-> IF i < hp THEN <<220, 30, 60, 255>> ELSE <<80, 40, 40, 255>>],
           [layer |-> "hearts", op |-> "DrawRectangleLinesEx", index |-> i,
            x |-> 20 + i * 26, y |-> 20, w |-> 20, h |-> 20,
            color |-> <<30, 10, 10, 255>>]>>
         \o HeartCmds(i + 1, hp, max_hp)

\* DrawHud's meta part mutated: a heart is filled up to and including index hp
DrawHudMetaFillsOneMore(s) ==
    IF ~Contains(s, "meta") THEN Drawn(<<>>)
    ELSE LET meta == At(s, "meta")
             hp == ValueNumber(meta, "player_hp", 0)
             max_hp == ValueNumber(meta, "player_max_hp", Max(hp.v, 1))
         IN IF hp.threw \/ max_hp.threw THEN Thrown(<<>>)
            ELSE Drawn(HeartCmds(0, hp.v + 1, max_hp.v))

\* DrawHud after DrawMessages and DrawBossHealth: hearts and counters
DrawHudMeta(s) ==
    IF ~Contains(s, "meta") THEN Drawn(<<>>)
    ELSE LET meta == At(s, "meta")
             hp == ValueNumber(meta, "player_hp", 0)
             max_hp == ValueNumber(meta, "player_max_hp", Max(hp.v, 1))
             coins == ValueNumber(meta, "coins", 0)
             keys == ValueNumber(meta, "keys", 0)
             bombs == ValueNumber(meta, "bombs", 0)
         IN IF hp.threw \/ max_hp.threw \/ coins.threw \/ keys.threw \/ bombs.threw
            THEN Thrown(<<>>)
            ELSE Drawn(HeartCmds(0, hp.v, max_hp.v) \o
                       <<[layer |-> "hearts", op |-> "DrawText",
                          text |-> <<"Coins", coins.v, "Keys", keys.v, "Bombs", bombs.v>>,
                          x |-> 20, y |-> 50, size |-> 20,
                          color |-> <<235, 235, 235, 255>>]>>)

DrawHud(s) == Then(DrawMessages(s), Then(DrawBossHealth(s), DrawHudMeta(s)))

\* RenderFrame mutated: the HUD is drawn first, under the world
RenderFrameHudFirst(s, ts, rw, rh) ==
    Then(DrawHud(s),
    Then(DrawTilemap(s, ts, rw, rh),
    Then(DrawPickups(s, ts, rw, rh),
    Then(DrawActors(s, ts, rw, rh),
    Then(DrawProjectiles(s, ts, rw, rh),
         DrawEffects(s, ts, rw, rh))))))

\* RenderFrame: the commands issued between BeginDrawing and EndDrawing, and
\* whether one of the Draw* methods threw (nothing in RenderFrame catches)
RenderFrame(s, ts, rw, rh) ==
    Then(DrawTilemap(s, ts, rw, rh),
    Then(DrawPickups(s, ts, rw, rh),
    Then(DrawActors(s, ts, rw, rh),
    Then(DrawProjectiles(s, ts, rw, rh),
    Then(DrawEffects(s, ts, rw, rh),
         DrawHud(s))))))

---------------------------------------------------------------------------
(* input frames and shared/input.json *)

\* the json HandleInput builds from the keys held down (move, attack) and the
\* keys pressed this frame (bomb, use_item, pause, quit); its axes are floats
InputFrame(keys) ==
    [move |-> <<(IF "A" \in keys THEN -1 ELSE 0) + (IF "D" \in keys THEN 1 ELSE 0),
                (IF "W" \in keys THEN -1 ELSE 0) + (IF "S" \in keys THEN 1 ELSE 0)>>,
     attack |-> <<(IF "LEFT" \in keys THEN -1 ELSE 0) + (IF "RIGHT" \in keys THEN 1 ELSE 0),
                  (IF "UP" \in keys THEN -1 ELSE 0) + (IF "DOWN" \in keys THEN 1 ELSE 0)>>,
     bomb |-> "SPACE" \in keys,
     use_item |-> "E" \in keys,
     pause |-> "P" \in keys,
     quit |-> "ESCAPE" \in keys,
     axes |-> "float"]

\* quit_payload mutated: the frame of SignalQuit does not set quit
quit_payloadWithoutQuit ==
    [move |-> <<0, 0>>, attack |-> <<0, 0>>, bomb |-> FALSE, use_item |-> FALSE,
     pause |-> FALSE, quit |-> FALSE, axes |-> "int"]

\* quit_payload of SignalQuit; its axes are integer literals
quit_payload ==
    [move |-> <<0, 0>>, attack |-> <<0, 0>>, bomb |-> FALSE, use_item |-> FALSE,
     pause |-> FALSE, quit |-> TRUE, axes |-> "int"]

NoWrite == [by |-> "none", frame |-> InputFrame({})]

\* WriteInput: the content of input.json after the call; opened is whether
\* the ofstream could open the file
WriteInput(input, opened, before) == IF opened THEN input ELSE before
WriteInputLog(opened) == IF opened THEN <<>> ELSE <<WriteWarning>>

---------------------------------------------------------------------------
(* main: the calls of one loop iteration, in order *)

\* main mutated: the input frame is captured and published before the poll
LoopBodyInputFirst == <<"HandleInput", "UpdateFromPython", "RenderFrame", "ShouldClose">>

LoopBody == <<"UpdateFromPython", "HandleInput", "RenderFrame", "ShouldClose">>

\* the call main makes after `call` within one iteration
Successor(call) ==
    LET i == CHOOSE k \in 1..Len(LoopBody) : LoopBody[k] = call
    IN LoopBody[i + 1]

---------------------------------------------------------------------------
(* what the environment can supply: keys, and contents of game_state.json *)

MaxMsgs == 3              \* longest ui.messages list the writer leaves
MaxHp == 2                \* largest player_hp / player_max_hp the writer leaves
MaxWritesAfterClose == 3  \* cap of the writes_after_close counter

KeySets ==
    { {}, {"W", "D", "UP"}, {"W", "S", "A", "LEFT", "RIGHT", "DOWN", "SPACE", "E", "P"},
      {"ESCAPE"}, {"ESCAPE", "S", "DOWN"} }

SeqsUpTo(S, n) == UNION {[1..k -> S] : k \in 0..n}

GoodTiles == Arr(<<Arr(<<Str("wall"), Str("floor")>>), Arr(<<Str("pit"), Str("lava")>>)>>)
BadTiles == Arr(<<Arr(<<Str("wall"), Num(3)>>)>>)

\* tilemap sections: each of tile_size, width, height missing, numeric or of
\* a wrong type; and a tilemap that is no object at all
TilemapValues ==
    { Obj(BuildObject(a \o b \o c \o <<<<"tiles", GoodTiles>>>>)) :
        a \in {<<>>, <<<<"tile_size", Num(16)>>>>, <<<<"tile_size", Str("big")>>>>},
        b \in {<<>>, <<<<"width", Num(2)>>>>, <<<<"width", Str("wide")>>>>},
        c \in {<<>>, <<<<"height", Num(1)>>>>, <<<<"height", Null>>>>} }
    \cup { Num(5), Obj([tile_size |-> Num(16)]), Obj([tiles |-> BadTiles]),
           Obj([tiles |-> Num(7)]), Obj([tiles |-> Arr(<<Str("wall")>>)]) }

Sections ==
    << <<"tilemap", Obj([tile_size |-> Num(16), width |-> Num(2), height |-> Num(1),
                         tiles |-> GoodTiles])>>,
       <<"pickups", Arr(<<Obj([kind |-> Str("key"), x |-> Num(1), y |-> Num(0)]),
                          Obj(<<>>)>>)>>,
       <<"actors", Arr(<<Obj([type |-> Str("player"), x |-> Num(0), y |-> Num(1),
                              invulnerable |-> Bool(TRUE)]),
                         Obj([variant |-> Str("spitter"), x |-> Num(1), y |-> Num(1),
                              hp |-> Num(3), max_hp |-> Num(0)])>>)>>,
       <<"projectiles", Arr(<<Obj([owner |-> Str("enemy"), x |-> Num(1)])>>)>>,
       <<"effects", Arr(<<Obj([kind |-> Str("blood_splatter"), y |-> Num(1)])>>)>>,
       <<"ui", Obj([messages |-> Arr(<<Str("A"), Str("B")>>),
                    boss_health |-> Obj([name |-> Str("Gurdy"), hp |-> Num(3),
                                         max_hp |-> Num(10)])])>>,
       <<"meta", Obj([player_hp |-> Num(1), player_max_hp |-> Num(2), coins |-> Num(5)])>> >>

\* the members of Sections whose index is in S, in document order or reversed
RECURSIVE Pick(_, _)
Pick(S, i) ==
    IF i > Len(Sections) THEN <<>>
    ELSE (IF i \in S THEN <<Sections[i]>> ELSE <<>>) \o Pick(S, i + 1)

SectionDocs ==
    LET some == {S \in SUBSET (1..Len(Sections)) :
                    SetSize(S) \in {0, 1, Len(Sections) - 1, Len(Sections)}}
    IN {Pick(S, 1) : S \in some}
       \cup {Reverse(Pick(S, 1)) : S \in {T \in some : SetSize(T) >= Len(Sections) - 1}}

\* documents with a section or a field of an unexpected type
IllTypedDocs ==
    { <<<<"ui", Obj([messages |-> Arr(<<Str("A"), Num(7)>>)])>>>>,
      <<<<"ui", Obj([boss_health |-> Num(1)])>>>>,
      <<<<"actors", Num(3)>>>>,
      <<<<"actors", Arr(<<Obj([hp |-> Str("full")])>>)>>, <<"meta", Obj(<<>>)>>>>,
      <<<<"meta", Str("x")>>>>,
      <<<<"meta", Obj([player_hp |-> Num(1), keys |-> Str("two")])>>>>,
      <<<<"pickups", Arr(<<Num(1)>>)>>>> }

\* documents whose sections have an unusual but drawable shape
OddDocs ==
    { <<<<"ui", Obj([messages |-> Str("hello"), boss_health |-> Null])>>>>,
      <<<<"pickups", Obj([first |-> Obj([kind |-> Str("bomb")])])>>>>,
      <<<<"effects", Null>>, <<"projectiles", Arr(<<>>)>>>>,
      <<<<"meta", Obj([player_hp |-> Num(1)])>>, <<"meta", Obj([player_hp |-> Num(2)])>>>> }

MessageDocs ==
    { <<<<"ui", Obj([messages |-> Arr([i \in 1..Len(m) |-> Str(m[i])])])>>>> :
        m \in SeqsUpTo({"A", "B"}, MaxMsgs) \cup {<<"A", "B", "C">>} }

MetaDocs ==
    { <<<<"meta", Obj(BuildObject(a \o b))>>>> :
        a \in {<<>>} \cup {<<<<"player_hp", Num(n)>>>> : n \in 0..MaxHp},
        b \in {<<>>} \cup {<<<<"player_max_hp", Num(n)>>>> : n \in -1..MaxHp} }

TilemapDocs == { <<<<"tilemap", v>>>> : v \in TilemapValues }

Documents == SectionDocs \cup IllTypedDocs \cup OddDocs \cup MessageDocs \cup MetaDocs \cup TilemapDocs

\* what a poll can find at shared/game_state.json
StateFiles ==
    { AbsentFile, TextFile("none", "object", <<>>), TextFile("full", "array", <<>>) }
    \cup { TextFile("full", "object", d) : d \in Documents }
    \cup { TextFile("partial", "object", Pick(1..Len(Sections), 1)) }

\* the contents that decide the control flow of a tick: no file, an empty
\* or half-written one, a document that is no object, documents with every
\* section or none, and the ill-typed ones
LoopFiles ==
    { AbsentFile, TextFile("none", "object", <<>>), TextFile("full", "array", <<>>),
      TextFile("partial", "object", Pick(1..Len(Sections), 1)),
      TextFile("full", "object", Pick(1..Len(Sections), 1)),
      TextFile("full", "object", <<>>),
      TextFile("full", "object", <<<<"tilemap", Num(5)>>>>),
      TextFile("full", "object", <<<<"tilemap", Obj([tiles |-> BadTiles])>>>>) }
    \cup { TextFile("full", "object", d) : d \in IllTypedDocs }

SceneKeySets == { {}, {"ESCAPE"} }

---------------------------------------------------------------------------
(* the process *)

Init ==
    /\ pc = "Initialize"
    /\ current_state_ = Null
    /\ tile_size_ = DefaultTileSize
    /\ room_width_ = 0
    /\ room_height_ = 0
    /\ quit_requested_ = FALSE
    /\ window_open = FALSE
    /\ game_state_json = AbsentFile
    /\ input_json = NoWrite.frame
    /\ last_write = NoWrite
    /\ writes_after_close = 0
    /\ draw_list = <<>>
    /\ tick_steps = <<>>
    /\ log = <<>>

\* Initialize: the shared directory is created if it can be, the window is
\* opened, the snapshot becomes an empty object
Initialize ==
    /\ pc = "Initialize"
    /\ \E created \in BOOLEAN : log' = IF created THEN <<>> ELSE <<DirectoryWarning>>
    /\ window_open' = TRUE
    /\ current_state_' = EmptyObject
    /\ pc' = LoopBody[1]
    /\ UNCHANGED <<tile_size_, room_width_, room_height_, quit_requested_,
                   game_state_json, input_json, last_write, writes_after_close,
                   draw_list, tick_steps>>

UpdateFromPythonOver(files) ==
    /\ pc = "UpdateFromPython"
    /\ \E file \in files :
         LET r == Poll(file, current_state_, tile_size_, room_width_, room_height_) IN
         /\ game_state_json' = file
         /\ current_state_' = r.state
         /\ tile_size_' = r.ts
         /\ room_width_' = r.rw
         /\ room_height_' = r.rh
         /\ log' = r.log
    /\ tick_steps' = Append(tick_steps, "poll")
    /\ pc' = Successor("UpdateFromPython")
    /\ UNCHANGED <<quit_requested_, window_open, input_json, last_write,
                   writes_after_close, draw_list>>

\* keysets: the keyboard states a frame can see; opens: whether input.json
\* can be opened for writing
HandleInputOver(keysets, opens) ==
    /\ pc = "HandleInput"
    /\ writes_after_close < MaxWritesAfterClose
    /\ \E keys \in keysets, opened \in opens :
         LET input == InputFrame(keys) IN
         /\ input_json' = WriteInput(input, opened, input_json)
         /\ log' = WriteInputLog(opened)
         /\ last_write' = [by |-> "HandleInput", frame |-> input]
         /\ quit_requested_' = (quit_requested_ \/ input.quit)
    /\ writes_after_close' = IF quit_requested_ THEN writes_after_close + 1
                             ELSE writes_after_close
    /\ tick_steps' = tick_steps \o <<"capture", "publish">>
    /\ pc' = Successor("HandleInput")
    /\ UNCHANGED <<current_state_, tile_size_, room_width_, room_height_,
                   window_open, game_state_json, draw_list>>

\* RenderFrame; an exception of a Draw* method leaves main and ends the process
RenderFrameCall ==
    /\ pc = "RenderFrame"
    /\ LET r == RenderFrame(current_state_, tile_size_, room_width_, room_height_) IN
         /\ draw_list' = r.cmds
         /\ pc' = IF r.threw THEN "aborted" ELSE Successor("RenderFrame")
    /\ tick_steps' = Append(tick_steps, "render")
    /\ log' = <<>>
    /\ UNCHANGED <<current_state_, tile_size_, room_width_, room_height_,
                   quit_requested_, window_open, game_state_json, input_json,
                   last_write, writes_after_close>>

\* ShouldClose and the branch main takes on its result; a new iteration
\* starts with nothing drawn and no step taken
ShouldClose ==
    /\ pc = "ShouldClose"
    /\ \E WindowShouldClose \in BOOLEAN :
         LET result == WindowShouldClose \/ quit_requested_ IN
         /\ quit_requested_' = (WindowShouldClose \/ quit_requested_)
         /\ pc' = IF result THEN "SignalQuit" ELSE LoopBody[1]
         /\ tick_steps' = IF result THEN Append(tick_steps, "check") ELSE <<>>
         /\ draw_list' = IF result THEN draw_list ELSE <<>>
    /\ log' = <<>>
    /\ UNCHANGED <<current_state_, tile_size_, room_width_, room_height_,
                   window_open, game_state_json, input_json, last_write,
                   writes_after_close>>

SignalQuitOver(opens) ==
    /\ pc = "SignalQuit"
    /\ \E opened \in opens :
         /\ input_json' = WriteInput(quit_payload, opened, input_json)
         /\ log' = WriteInputLog(opened)
    /\ last_write' = [by |-> "SignalQuit", frame |-> quit_payload]
    /\ writes_after_close' = IF quit_requested_ THEN writes_after_close + 1
                             ELSE writes_after_close
    /\ pc' = "Shutdown"
    /\ UNCHANGED <<current_state_, tile_size_, room_width_, room_height_,
                   quit_requested_, window_open, game_state_json, draw_list,
                   tick_steps>>

Shutdown ==
    /\ pc = "Shutdown"
    /\ window_open' = FALSE
    /\ pc' = "terminated"
    /\ log' = <<>>
    /\ UNCHANGED <<current_state_, tile_size_, room_width_, room_height_,
                   quit_requested_, game_state_json, input_json, last_write,
                   writes_after_close, draw_list, tick_steps>>

\* The tick loop under every keyboard state and write outcome, against the
\* kinds of game_state.json content that decide the control flow
UpdateFromPython == UpdateFromPythonOver(LoopFiles)
HandleInput == HandleInputOver(KeySets, BOOLEAN)
SignalQuit == SignalQuitOver(BOOLEAN)

Next ==
    \/ Initialize
    \/ UpdateFromPython
    \/ HandleInput
    \/ RenderFrameCall
    \/ ShouldClose
    \/ SignalQuit
    \/ Shutdown

Spec == Init /\ [][Next]_vars

\* The same loop against every document of StateFiles, with a writable
\* input.json and the two keyboard states that decide whether the loop ends
PollScene == UpdateFromPythonOver(StateFiles)
HandleInputScene == HandleInputOver(SceneKeySets, {TRUE})
SignalQuitScene == SignalQuitOver({TRUE})

NextScene ==
    \/ Initialize
    \/ PollScene
    \/ HandleInputScene
    \/ RenderFrameCall
    \/ ShouldClose
    \/ SignalQuitScene
    \/ Shutdown

SpecScene == Init /\ [][NextScene]_vars

---------------------------------------------------------------------------
(* properties *)

IsPrefix(a, b) == Len(a) <= Len(b) /\ \A i \in 1..Len(a) : a[i] = b[i]

\* this tick's RenderFrame has been called
Rendered == \E i \in 1..Len(tick_steps) : tick_steps[i] = "render"

\* this tick's RenderFrame got as far as DrawHud
ReachedHud ==
    /\ Rendered
    /\ ~Then(DrawTilemap(current_state_, tile_size_, room_width_, room_height_),
        Then(DrawPickups(current_state_, tile_size_, room_width_, room_height_),
        Then(DrawActors(current_state_, tile_size_, room_width_, room_height_),
        Then(DrawProjectiles(current_state_, tile_size_, room_width_, room_height_),
             DrawEffects(current_state_, tile_size_, room_width_, room_height_))))).threw

CommandsOf(layer) == SelectSeq(draw_list, LAMBDA c : c.layer = layer)

\* the poll step that has just found game_state_json'
PollStep == pc = "UpdateFromPython" /\ pc' # "UpdateFromPython"

\* C1: a poll that finds no game_state.json, or one that does not parse,
\* leaves the snapshot as it was; the unparsable file logs exactly one
\* warning, the absent one none.
C1_FailedPollKeepsSnapshot ==
    [][PollStep =>
         /\ ~game_state_json'.present =>
              current_state_' = current_state_ /\ log' = <<>>
         /\ (game_state_json'.present /\ game_state_json'.written # "full") =>
              current_state_' = current_state_ /\ log' = <<ParseWarning>>]_vars

C1_Witness ==
    /\ pc = Successor("UpdateFromPython")
    /\ game_state_json.present /\ game_state_json.written = "partial"
    /\ Contains(current_state_, "meta")
    /\ log = <<ParseWarning>>

\* C2: once Initialize has run, no content of game_state.json and no write
\* failure makes the process leave the loop other than by the termination
\* check: the process never aborts.
C2_NoAbort == pc # "aborted"

\* C3: in every run that has ended, if a close signal was observed then
\* exactly one WriteInput call was made after the call that observed it, and
\* that call carried quit = true with move and attack (0, 0).
C3_OneWriteAfterClose ==
    (pc \in {"terminated", "aborted"} /\ quit_requested_) =>
        /\ writes_after_close = 1
        /\ last_write.frame.quit
        /\ last_write.frame.move = <<0, 0>>
        /\ last_write.frame.attack = <<0, 0>>

IsQuitFrame(f) ==
    /\ f.quit /\ ~f.bomb /\ ~f.use_item /\ ~f.pause
    /\ f.move = <<0, 0>> /\ f.attack = <<0, 0>>

HasTilemap(file) ==
    /\ file.present /\ file.written = "full" /\ file.top = "object"
    /\ \E i \in 1..Len(file.members) : file.members[i][1] = "tilemap"
TilemapOf(file) ==
    LET last == CHOOSE i \in 1..Len(file.members) :
                    /\ file.members[i][1] = "tilemap"
                    /\ \A j \in (i + 1)..Len(file.members) : file.members[j][1] # "tilemap"
    IN file.members[last][2]
\* the tilemap section is an object whose tile_size, width and height are
\* each a number or missing
FieldsReadable(tilemap) ==
    /\ tilemap.t = "obj"
    /\ \A key \in {"tile_size", "width", "height"} :
          key \in DOMAIN tilemap.o => tilemap.o[key].t = "num"
\* a field of such a tilemap section, or its default when missing
FieldOr(tilemap, key, def) ==
    IF key \in DOMAIN tilemap.o THEN tilemap.o[key].n ELSE def

\* C6: a poll refreshes the cached tile size, room width and room height
\* together from the tilemap section of the document it read, each field
\* with its own default (32, 0, 0) when missing, and leaves all three as
\* they were when it read no document, one without a tilemap section, or a
\* tilemap section whose fields cannot all be read.
C6_CacheRefreshedTogether ==
    [][PollStep =>
         LET before == <<tile_size_, room_width_, room_height_>>
             after == <<tile_size_', room_width_', room_height_'>>
         IN IF HasTilemap(game_state_json') /\ FieldsReadable(TilemapOf(game_state_json'))
            THEN LET tilemap == TilemapOf(game_state_json') IN
                 after = <<FieldOr(tilemap, "tile_size", DefaultTileSize),
                           FieldOr(tilemap, "width", 0),
                           FieldOr(tilemap, "height", 0)>>
            ELSE after = before]_vars


Layers == <<"tilemap", "pickups", "actors", "projectiles", "effects",
            "messages", "boss", "hearts">>
LayerRank(layer) == CHOOSE k \in 1..Len(Layers) : Layers[k] = layer

\* the section of the snapshot a layer is drawn from is absent
SectionAbsent(s, layer) ==
    CASE layer = "messages" -> ~Contains(s, "ui") \/ ~Contains(At(s, "ui"), "messages")
      [] layer = "boss" -> ~Contains(s, "ui") \/ ~Contains(At(s, "ui"), "boss_health")
      [] layer = "hearts" -> ~Contains(s, "meta")
      [] OTHER -> ~Contains(s, layer)

\* C7: the draw commands of a frame come in the layer order tilemap,
\* pickups, actors, projectiles, effects, messages, boss-health bar,
\* hearts/counters, whatever the order of the sections in the document, and
\* a layer whose section is absent from the snapshot has no command.
C7_LayersInFixedOrder ==
    /\ \A i, j \in 1..Len(draw_list) :
         i < j => LayerRank(draw_list[i].layer) <= LayerRank(draw_list[j].layer)
    /\ \A k \in 1..Len(Layers) :
         SectionAbsent(current_state_, Layers[k]) => CommandsOf(Layers[k]) = <<>>

C7_Witness ==
    /\ pc = Successor("RenderFrame")
    /\ \A k \in 1..Len(Layers) : CommandsOf(Layers[k]) # <<>>
    /\ game_state_json.members[1][1] = "meta"

\* the snapshot's ui.messages is a list of strings
MessagesAreStrings ==
    /\ Contains(current_state_, "ui")
    /\ Contains(At(current_state_, "ui"), "messages")
    /\ At(At(current_state_, "ui"), "messages").t = "arr"
    /\ \A i \in 1..Len(At(At(current_state_, "ui"), "messages").a) :
         At(At(current_state_, "ui"), "messages").a[i].t = "str"

\* C9: for a ui.messages list m of n strings, DrawMessages issues n text
\* commands, newest first: the k-th command (k = 0 for the newest) draws
\* m[n-1-k] at y = screen height - 20 - 22 * (k + 1).
C9_MessagesBottomUp ==
    (ReachedHud /\ MessagesAreStrings) =>
        LET m == At(At(current_state_, "ui"), "messages").a
            n == Len(m)
            cmds == CommandsOf("messages")
        IN /\ Len(cmds) = n
           /\ \A k \in 0..(n - 1) :
                /\ cmds[k + 1].text = m[n - k].s
                /\ cmds[k + 1].y = screen_height - 20 - 22 * (k + 1)

C9_Witness ==
    /\ ReachedHud /\ MessagesAreStrings
    /\ At(At(current_state_, "ui"), "messages").a = <<Str("A"), Str("B"), Str("C")>>
    /\ LET cmds == CommandsOf("messages") IN
         /\ Len(cmds) = 3
         /\ cmds[1].text = "C" /\ cmds[2].text = "B" /\ cmds[3].text = "A"
         /\ cmds[2].y = cmds[1].y - 22 /\ cmds[3].y = cmds[1].y - 44

HeartSquares == SelectSeq(draw_list, LAMBDA c : c.layer = "hearts" /\ c.op = "DrawRectangleRec")
FilledHeart == <<220, 30, 60, 255>>

\* a number field of the snapshot's meta section, or def when it is missing
MetaField(key, def) ==
    LET meta == At(current_state_, "meta") IN
    IF key \in DOMAIN meta.o THEN meta.o[key].n ELSE def

\* this tick's frame was rendered to the end from a snapshot with a meta section
MetaDrawn == Rendered /\ pc # "aborted" /\ Contains(current_state_, "meta")

LifecycleOf(p) ==
    CASE p = "Initialize" -> "Init"
      [] p \in {"UpdateFromPython", "HandleInput", "RenderFrame", "ShouldClose"} -> "Running"
      [] p \in {"SignalQuit", "Shutdown"} -> "ShuttingDown"
      [] p = "terminated" -> "Terminated"
      [] OTHER -> "Aborted"

\* C8: the lifecycle moves only along Init, Running, ShuttingDown,
\* Terminated; quit_requested_ is never reset; a tick in which the close
\* signal was seen still completes its render and reaches the termination
\* check, and no further tick starts after it.
C8_LifecycleAndCancellation ==
    [][/\ <<LifecycleOf(pc), LifecycleOf(pc')>> \in
            { <<"Init", "Running">>, <<"Running", "Running">>,
              <<"Running", "ShuttingDown">>, <<"ShuttingDown", "ShuttingDown">>,
              <<"ShuttingDown", "Terminated">> }
       /\ quit_requested_ => quit_requested_'
       /\ (quit_requested_ /\ pc = "RenderFrame") => pc' = "ShouldClose"
       /\ (quit_requested_ /\ pc = "ShouldClose") => pc' = "SignalQuit"]_vars

====
